---- MODULE Spec2Model ----
(***************************************************************************)
(* Submission execution pipeline of the online judge: the language         *)
(* partitioned Redis queue (workers/redis_queue_service.py), the worker    *)
(* loop (workers/code_execution_worker.py), the submission use cases and   *)
(* the language executors (workers/language_executors/*.py).               *)
(***************************************************************************)
EXTENDS Integers, Sequences, FiniteSets, TLC

(***************************************************************************)
(* Bounds of the model.                                                    *)
(***************************************************************************)
\* longest test-case list handed to an executor
MaxCases == 3
\* the challenge's per-case time limit in ms (a sample value)
TimeLimit == 1000
\* submissions created
MaxSubs == 1
\* jobs pushed to the queues
MaxJobs == 2
\* worker processes
NumWorkers == 2
\* injected faults
MaxFaults == 1
\* test cases stored for the challenge
MaxStoredCases == 2

\* children exit only while the manager has restarted fewer than this many
MaxRestarts == 2
\* characters of a text to normalize
MaxLen == 4

(***************************************************************************)
(* Program constants.                                                      *)
(***************************************************************************)
\* docker_runner.py: timeout_seconds = time_limit_ms / 1000.0 + 1.0
DOCKER_BUFFER_MS == 1000
\* python_executor.py: timeout_seconds = time_limit / 1000.0 + 0.5
PY_BUFFER_MS == 500
\* cpp_executor.py _compile_code: time_limit_ms=15000
CPP_COMPILE_LIMIT_MS == 15000
\* java_executor.py _compile_code: time_limit_ms=10000
JAVA_COMPILE_LIMIT_MS == 10000
\* docker_runner.py: "exit_code": 124 on asyncio.TimeoutError
TIMEOUT_EXIT_CODE == 124
\* submit_solution_use_case.py _validate_code: len(code) > 10000
MAX_CODE_LENGTH == 10000

Langs == {"python", "java", "nodejs", "cpp"}

SubmissionStatus ==
  {"QUEUED", "RUNNING", "ACCEPTED", "WRONG_ANSWER", "TIME_LIMIT_EXCEEDED",
   "RUNTIME_ERROR", "COMPILATION_ERROR"}

\* Submission.is_completed
TerminalStatus ==
  {"ACCEPTED", "WRONG_ANSWER", "TIME_LIMIT_EXCEEDED", "RUNTIME_ERROR",
   "COMPILATION_ERROR"}

\* Python's None where a text is expected: no text equals it
None == <<"None">>

(***************************************************************************)
(* Text.  A text is a sequence of one-character strings.                   *)
(***************************************************************************)
\* the characters str.strip() removes, within the model's alphabet
Whitespace == {" ", "\n", "\r"}

RECURSIVE lstrip(_)
lstrip(s) ==
  IF s # <<>> /\ Head(s) \in Whitespace THEN lstrip(Tail(s)) ELSE s

RECURSIVE rstrip(_)
rstrip(s) ==
  IF s # <<>> /\ s[Len(s)] \in Whitespace
    THEN rstrip(SubSeq(s, 1, Len(s) - 1))
    ELSE s

\* str.strip()
strip(s) == rstrip(lstrip(s))

\* str.replace('\r\n', '\n')
RECURSIVE replace_crlf(_)
replace_crlf(s) ==
  IF s = <<>> THEN <<>>
  ELSE IF Len(s) >= 2 /\ s[1] = "\r" /\ s[2] = "\n"
    THEN <<"\n">> \o replace_crlf(SubSeq(s, 3, Len(s)))
    ELSE <<Head(s)>> \o replace_crlf(Tail(s))

\* str.replace('\r', '\n')
replace_cr(s) == [i \in 1..Len(s) |-> IF s[i] = "\r" THEN "\n" ELSE s[i]]

\* str.rstrip('\n')
RECURSIVE rstrip_nl(_)
rstrip_nl(s) ==
  IF s # <<>> /\ s[Len(s)] = "\n"
    THEN rstrip_nl(SubSeq(s, 1, Len(s) - 1))
    ELSE s

\* PythonExecutor._normalize_output
py_normalize_output(output) ==
  IF output = <<>> THEN <<>>
  ELSE rstrip_nl(replace_cr(replace_crlf(strip(output))))

\* CppExecutor / JavaExecutor / NodeJSExecutor._normalize_output (the first
\* variant removes one trailing whitespace character instead of stripping)
docker_normalize_output_chomp(output) ==
  replace_cr(replace_crlf(
    IF output # <<>> /\ output[Len(output)] \in Whitespace
      THEN SubSeq(output, 1, Len(output) - 1)
      ELSE output))
docker_normalize_output(output) == replace_cr(replace_crlf(strip(output)))

(***************************************************************************)
(* Source code.  A source text is the set of the fragments it contains;    *)
(* the executors only ask whether a fragment occurs in it.                 *)
(***************************************************************************)
\* PythonExecutor.validate_code: dangerous_imports (as "import <name>")
PY_DANGEROUS_IMPORTS ==
  {"import os", "import sys", "import subprocess", "import socket"}

\* JavaExecutor.validate_code: dangerous_imports
JAVA_DANGEROUS_IMPORTS == {"java.io.File", "java.net", "java.lang.Runtime"}

\* JavaExecutor.validate_code: required class definition
JAVA_CLASS_DEFS == {"class Solution", "public class"}

\* NodeJSExecutor.validate_code: dangerous_modules (as require('<name>'))
NODE_DANGEROUS_MODULES ==
  {"require('fs')", "require('child_process')", "require('net')",
   "require('http')", "require('https')", "require('dns')"}

\* CppExecutor.validate_code: dangerous_includes
CPP_DANGEROUS_INCLUDES ==
  {"<cstdlib>", "<filesystem>", "<fstream>", "<unistd.h>"}

\* the deny-list of a language
DenyList(lang) ==
  CASE lang = "python" -> PY_DANGEROUS_IMPORTS
    [] lang = "java" -> JAVA_DANGEROUS_IMPORTS
    [] lang = "nodejs" -> NODE_DANGEROUS_MODULES
    [] lang = "cpp" -> CPP_DANGEROUS_INCLUDES

\* BaseExecutor.validate_code: empty code is invalid (the 1 MB cap cannot
\* be reached, submit caps the code at 10 000 characters)
base_validate_code(code) == code # {}

\* <Lang>Executor.validate_code: TRUE when the code may be executed
validate_code(lang, code) ==
  CASE lang = "python" ->
         \* the dangerous imports are only logged
         base_validate_code(code)
    [] lang = "java" ->
         /\ base_validate_code(code)
         /\ code \cap JAVA_CLASS_DEFS # {}
         /\ code \cap JAVA_DANGEROUS_IMPORTS = {}
    [] lang = "nodejs" ->
         /\ base_validate_code(code)
         /\ code \cap NODE_DANGEROUS_MODULES = {}
    [] lang = "cpp" ->
         /\ base_validate_code(code)
         /\ code \cap CPP_DANGEROUS_INCLUDES = {}

(***************************************************************************)
(* Sandbox runner (docker_runner.py).                                      *)
(***************************************************************************)
\* lines the harness writes to stderr before the command runs
\* (_run_container: debug_command)
HARNESS_LINES == {"Files in /workspace:", "---Running command---"}

\* sample stderr lines of compilers and user programs
PROGRAM_LINES ==
  {"solution.cpp:3:1: error: expected ';'", "javac: file not found"}

\* the executors' filter of harness lines (startswith "Files in", ...)
FilterHarness(stderr) == stderr \ HARNESS_LINES

\* the lower-cased markers a stderr line contains
MarkersOfLine(line) ==
  CASE line = "solution.cpp:3:1: error: expected ';'" -> {"error:"}
    [] line = "javac: file not found" -> {"javac"}
    [] OTHER -> {}

\* the markers some line of stderr contains
Markers(stderr) == UNION {MarkersOfLine(l) : l \in stderr}

\* DockerRunner.run_code builds one of three commands
FullCmd(input, compile_first) ==
  IF compile_first
    THEN IF strip(input) # <<>> THEN "compile_and_run" ELSE "compile_only"
    ELSE "run"

\* samples of what a user program writes to stdout
RawOutputs == {<<>>, <<"a", "\n">>, <<"b", "\n">>}

\* elapsed wall time samples of a run that ends before the runner's timeout
ElapsedSamples(limit) == {limit - 500, limit + 500}

\* DockerRunner.run_code: the results one invocation can return
RunCode(input, time_limit_ms, compile_first) ==
  \* asyncio.TimeoutError after time_limit_ms + DOCKER_BUFFER_MS
  {[success |-> FALSE, output |-> <<>>,
    error |-> {"Execution exceeded time limit"},
    exit_code |-> TIMEOUT_EXIT_CODE, execution_time_ms |-> time_limit_ms]}
  \cup
  \* any other exception (docker missing, ...)
  {[success |-> FALSE, output |-> <<>>, error |-> {"docker: not found"},
    exit_code |-> 1, execution_time_ms |-> 0]}
  \cup
  \* the container ran to its end
  UNION {
    {[success |-> (rc = 0), output |-> strip(out),
      error |-> HARNESS_LINES \cup err,
      exit_code |-> rc, execution_time_ms |-> t] :
        out \in IF FullCmd(input, compile_first) = "compile_only"
                  THEN {<<>>} ELSE RawOutputs,
        \* a compiler that exits 0 reports no error
        err \in IF FullCmd(input, compile_first) = "compile_only" /\ rc = 0
                  THEN {{}} ELSE {{}} \cup {{l} : l \in PROGRAM_LINES},
        t \in {x \in ElapsedSamples(time_limit_ms) :
                 x <= time_limit_ms + DOCKER_BUFFER_MS}} :
    rc \in {0, 1}}

(***************************************************************************)
(* Language executors.  A test case is [input, expected_output]; its id    *)
(* is its position in the job's list.  A case result is                    *)
(* [case_id, status, time_ms].                                             *)
(***************************************************************************)
ExecutionResult(case_id, status, time_ms) ==
  [case_id |-> case_id, status |-> status, time_ms |-> time_ms]

\* BaseExecutor._calculate_score: int((passed / len(results)) * 100); the
\* float product truncates to the integer quotient for every list shorter
\* than 50 cases
_calculate_score(results) ==
  IF results = <<>> THEN 0
  ELSE LET passed ==
             Cardinality({i \in 1..Len(results) :
                            results[i].status = "ACCEPTED"})
       IN (passed * 100) \div Len(results)

\* _determine_overall_status with the runtime-error and time-limit checks
\* in the wrong order
_determine_overall_status_tle_first(results) ==
  LET any(st) == \E i \in 1..Len(results) : results[i].status = st
  IN IF results = <<>> THEN "RUNTIME_ERROR"
     ELSE IF any("COMPILATION_ERROR") THEN "COMPILATION_ERROR"
     ELSE IF any("TIME_LIMIT_EXCEEDED") THEN "TIME_LIMIT_EXCEEDED"
     ELSE IF any("RUNTIME_ERROR") THEN "RUNTIME_ERROR"
     ELSE IF \A i \in 1..Len(results) : results[i].status = "ACCEPTED"
       THEN "ACCEPTED"
     ELSE "WRONG_ANSWER"

\* BaseExecutor._determine_overall_status
_determine_overall_status(results) ==
  LET any(st) == \E i \in 1..Len(results) : results[i].status = st
  IN IF results = <<>> THEN "RUNTIME_ERROR"
     ELSE IF any("COMPILATION_ERROR") THEN "COMPILATION_ERROR"
     ELSE IF any("RUNTIME_ERROR") THEN "RUNTIME_ERROR"
     ELSE IF any("TIME_LIMIT_EXCEEDED") THEN "TIME_LIMIT_EXCEEDED"
     ELSE IF \A i \in 1..Len(results) : results[i].status = "ACCEPTED"
       THEN "ACCEPTED"
     ELSE "WRONG_ANSWER"

\* the if/elif chain that ends _execute_test_case of the docker executors
DockerStatus(r, expected_output, time_limit) ==
  IF r.execution_time_ms > time_limit THEN "TIME_LIMIT_EXCEEDED"
  ELSE IF r.exit_code # 0 THEN "RUNTIME_ERROR"
  ELSE IF docker_normalize_output(strip(r.output))
            = docker_normalize_output(expected_output)
    THEN "ACCEPTED"
  ELSE "WRONG_ANSWER"

\* NodeJSExecutor._execute_test_case on the runner's result r
nodejs_execute_test_case(r, expected_output, time_limit) ==
  [status |-> DockerStatus(r, expected_output, time_limit),
   time_ms |-> r.execution_time_ms]

\* CppExecutor._execute_test_case on the runner's result r
cpp_execute_test_case(r, expected_output, time_limit) ==
  IF Markers(FilterHarness(r.error)) \cap {"g++", "compilation", "error:"}
       # {}
    THEN [status |-> "COMPILATION_ERROR", time_ms |-> r.execution_time_ms]
    ELSE [status |-> DockerStatus(r, expected_output, time_limit),
          time_ms |-> r.execution_time_ms]

\* JavaExecutor._execute_test_case on the runner's result r
java_execute_test_case(r, expected_output, time_limit) ==
  IF Markers(r.error) \cap {"javac", "compilation"} # {}
    THEN [status |-> "COMPILATION_ERROR", time_ms |-> r.execution_time_ms]
    ELSE [status |-> DockerStatus(r, expected_output, time_limit),
          time_ms |-> r.execution_time_ms]

\* PythonExecutor._execute_test_case: what the subprocess can do
PySubprocess(time_limit) ==
  \* asyncio.TimeoutError after time_limit + PY_BUFFER_MS
  {[timed_out |-> TRUE, returncode |-> -9, stdout |-> <<>>,
    execution_time |-> time_limit + PY_BUFFER_MS]}
  \cup
  {[timed_out |-> FALSE, returncode |-> rc, stdout |-> out,
    execution_time |-> t] :
      rc \in {0, 1}, out \in RawOutputs,
      t \in {x \in ElapsedSamples(time_limit) :
               x <= time_limit + PY_BUFFER_MS}}

\* PythonExecutor._execute_test_case on the subprocess outcome p
python_execute_test_case(p, expected_output, time_limit) ==
  IF p.timed_out
    THEN [status |-> "TIME_LIMIT_EXCEEDED", time_ms |-> p.execution_time]
  ELSE IF p.returncode # 0
    THEN [status |-> "RUNTIME_ERROR", time_ms |-> p.execution_time]
  ELSE IF p.execution_time > time_limit
    THEN [status |-> "TIME_LIMIT_EXCEEDED", time_ms |-> p.execution_time]
  ELSE IF py_normalize_output(strip(p.stdout))
            = py_normalize_output(expected_output)
    THEN [status |-> "ACCEPTED", time_ms |-> p.execution_time]
  ELSE [status |-> "WRONG_ANSWER", time_ms |-> p.execution_time]

\* CppExecutor._compile_code: success of the compile-only run r
cpp_compile_success(r) ==
  ~ \/ r.exit_code # 0
    \/ Markers(FilterHarness(r.error)) \cap {"g++", "error:", "compilation"}
         # {}

\* JavaExecutor._compile_code: success of the compile-only run r (the
\* runner's own flag; a failed run always carries a message)
java_compile_success(r) == r.success

CompiledLangs == {"java", "cpp"}

CompileLimit(lang) ==
  IF lang = "cpp" THEN CPP_COMPILE_LIMIT_MS ELSE JAVA_COMPILE_LIMIT_MS

(***************************************************************************)
(* execute_code as a step machine.  An executor state e holds the          *)
(* arguments, the position in execute_code, the results so far, the        *)
(* number of sandbox or subprocess invocations made and, once done, the    *)
(* returned dictionary.  Two fields record history for the properties:     *)
(* last, what the latest invocation did, and cut_off, the cases whose run  *)
(* the runner ended with its timeout.                                      *)
(***************************************************************************)
\* the markers that make an executor call a stderr a compiler failure
CompilerMarkers(lang) ==
  CASE lang = "cpp" -> {"g++", "compilation", "error:"}
    [] lang = "java" -> {"javac", "compilation"}
    [] OTHER -> {}

NoRun ==
  [phase |-> "none", exit_code |-> 0, execution_time_ms |-> 0,
   compiler_stderr |-> FALSE, output_ok |-> FALSE]

\* what the executor of lang sees of the runner's result r
Seen(lang, phase, r, expected_output) ==
  [phase |-> phase, exit_code |-> r.exit_code,
   execution_time_ms |-> r.execution_time_ms,
   compiler_stderr |->
     Markers(FilterHarness(r.error)) \cap CompilerMarkers(lang) # {},
   output_ok |-> docker_normalize_output(strip(r.output))
                   = docker_normalize_output(expected_output)]

\* what the Python executor sees of the subprocess outcome p
PySeen(p, expected_output) ==
  [phase |-> "case", exit_code |-> p.returncode,
   execution_time_ms |-> p.execution_time, compiler_stderr |-> FALSE,
   output_ok |-> py_normalize_output(strip(p.stdout))
                   = py_normalize_output(expected_output)]

NoReturn ==
  [status |-> "none", score |-> 0, total_time_ms |-> 0, cases |-> <<>>]

ExecStart(lang, code, test_cases, time_limit) ==
  [lang |-> lang, code |-> code, test_cases |-> test_cases,
   time_limit |-> time_limit, pc |-> "validate", results |-> <<>>,
   compile_time |-> 0, calls |-> 0, ret |-> NoReturn,
   last |-> NoRun, cut_off |-> {}]

\* _create_error_response
_create_error_response ==
  [status |-> "COMPILATION_ERROR", score |-> 0, total_time_ms |-> 0,
   cases |-> <<>>]

\* execute_code: "Validate code"
ExecValidate(e) ==
  IF validate_code(e.lang, e.code)
    THEN {[e EXCEPT !.pc = IF e.lang \in CompiledLangs
                             THEN "compile" ELSE "cases"]}
    ELSE {[e EXCEPT !.pc = "done", !.ret = _create_error_response]}

\* CppExecutor.execute_code: the dictionary returned on a failed compile
cpp_compile_error(r) ==
  [status |-> "COMPILATION_ERROR", score |-> 0,
   total_time_ms |-> r.execution_time_ms, cases |-> <<>>]

\* JavaExecutor.execute_code: the dictionary returned on a failed compile
java_compile_error(r) ==
  [status |-> "COMPILATION_ERROR", score |-> 0,
   total_time_ms |-> r.execution_time_ms,
   cases |-> <<ExecutionResult(1, "COMPILATION_ERROR",
                               r.execution_time_ms)>>]

\* execute_code: "Try to compile first"
ExecCompile(e) ==
  {IF (IF e.lang = "cpp" THEN cpp_compile_success(r)
                         ELSE java_compile_success(r))
     THEN [e EXCEPT !.pc = "cases", !.calls = @ + 1,
                    !.compile_time = r.execution_time_ms,
                    !.last = Seen(e.lang, "compile", r, <<>>)]
     ELSE [e EXCEPT !.pc = "done", !.calls = @ + 1,
                    !.ret = IF e.lang = "cpp" THEN cpp_compile_error(r)
                                              ELSE java_compile_error(r),
                    !.last = Seen(e.lang, "compile", r, <<>>)] :
     r \in RunCode(<<>>, CompileLimit(e.lang), TRUE)}

\* the input_data an executor passes on for test case tc
InputData(lang, tc) ==
  IF lang = "python" THEN tc.input
  ELSE IF tc.input = None THEN <<>> ELSE tc.input

\* execute_code: one turn of "for i, test_case in enumerate(test_cases)"
ExecCase(e) ==
  LET i == Len(e.results) + 1
      tc == e.test_cases[i]
      input_data == InputData(e.lang, tc)
      done(res, invoked, seen, cut) ==
        [e EXCEPT !.results = Append(@, ExecutionResult(i, res.status,
                                                        res.time_ms)),
                  !.calls = @ + invoked,
                  !.last = seen,
                  !.cut_off = IF cut THEN @ \cup {i} ELSE @]
      docker(r, res) ==
        done(res, 1, Seen(e.lang, "case", r, tc.expected_output),
             r.exit_code = TIMEOUT_EXIT_CODE)
  IN CASE e.lang = "python" ->
            IF input_data = None
              \* input_data.replace raises; caught by "except Exception"
              THEN {done([status |-> "RUNTIME_ERROR", time_ms |-> 0], 0,
                         NoRun, FALSE)}
              ELSE {done(python_execute_test_case(p, tc.expected_output,
                                                  e.time_limit), 1,
                         PySeen(p, tc.expected_output), FALSE) :
                      p \in PySubprocess(e.time_limit)}
       [] e.lang = "nodejs" ->
            {docker(r, nodejs_execute_test_case(r, tc.expected_output,
                                                e.time_limit)) :
               r \in RunCode(input_data, e.time_limit, FALSE)}
       [] e.lang = "cpp" ->
            {docker(r, cpp_execute_test_case(r, tc.expected_output,
                                             e.time_limit)) :
               r \in RunCode(input_data, e.time_limit, TRUE)}
       [] e.lang = "java" ->
            {docker(r, java_execute_test_case(r, tc.expected_output,
                                              e.time_limit)) :
               r \in RunCode(input_data, e.time_limit, TRUE)}

RECURSIVE SumTime(_)
SumTime(results) ==
  IF results = <<>> THEN 0
  ELSE Head(results).time_ms + SumTime(Tail(results))

\* execute_code: the statements after the loop
ExecAggregate(e) ==
  {[e EXCEPT !.pc = "done",
             !.ret = [status |-> _determine_overall_status(e.results),
                      score |-> _calculate_score(e.results),
                      total_time_ms |-> e.compile_time + SumTime(e.results),
                      cases |-> e.results]]}

\* the executor states that follow e
ExecSuccessors(e) ==
  CASE e.pc = "validate" -> ExecValidate(e)
    [] e.pc = "compile" -> ExecCompile(e)
    [] e.pc = "cases" ->
         IF Len(e.results) < Len(e.test_cases)
           THEN ExecCase(e) ELSE ExecAggregate(e)
    [] OTHER -> {}

\* execute_code: the dictionaries one call started in e can return
RECURSIVE execute_code(_)
execute_code(e) ==
  IF e.pc = "done" THEN {e.ret}
  ELSE UNION {execute_code(s) : s \in ExecSuccessors(e)}

(***************************************************************************)
(* Queue, status cache and submission store.                               *)
(***************************************************************************)
\* ProgrammingLanguage: the values stored with a submission
ProgrammingLanguage == {"PYTHON", "NODEJS", "CPP", "JAVA"}

\* str.lower on a language name
lower(language) ==
  CASE language = "PYTHON" -> "python"
    [] language = "NODEJS" -> "nodejs"
    [] language = "CPP" -> "cpp"
    [] language = "JAVA" -> "java"
    [] OTHER -> language

\* str.upper on a language name
upper(language) ==
  CASE language = "python" -> "PYTHON"
    [] language = "nodejs" -> "NODEJS"
    [] language = "cpp" -> "CPP"
    [] language = "java" -> "JAVA"
    [] OTHER -> language

\* RedisQueueService._get_queue_name; a queue is named by its language
_get_queue_name(language) ==
  IF lower(language) \in Langs THEN lower(language) ELSE "python"

\* Redis LPUSH: the value goes to the head of the list
lpush_tail(list, value) == list \o <<value>>
lpush(list, value) == <<value>> \o list

\* Redis BRPOP on a non-empty list: the tail element leaves the list
brpop_keep(list) == [item |-> list[Len(list)], rest |-> list]
brpop(list) ==
  [item |-> list[Len(list)], rest |-> SubSeq(list, 1, Len(list) - 1)]

\* test cases as the challenge stores them: the input may be empty
StoredCaseSamples ==
  {[input |-> <<>>, expected_output |-> <<"a", "\n">>],
   [input |-> <<"5">>, expected_output |-> <<"a", "\n">>]}

\* ProcessSubmissionUseCase.execute: "input": tc.input if tc.input else None
ContextCase(tc) ==
  [input |-> IF tc.input = <<>> THEN None ELSE tc.input,
   expected_output |-> tc.expected_output]

ContextCases(test_cases) ==
  [i \in 1..Len(test_cases) |-> ContextCase(test_cases[i])]

\* a row of the submissions table
NoRow ==
  [exists |-> FALSE, language |-> "PYTHON", code |-> {}, status |-> "none",
   score |-> 0, cases |-> <<>>]

\* SubmitSolutionUseCase.execute: the Submission it saves
NewSubmission(language, code) ==
  [exists |-> TRUE, language |-> language, code |-> code,
   status |-> "QUEUED", score |-> 0, cases |-> <<>>]

NoJob ==
  [submission_id |-> 0, language |-> "python", code |-> {},
   test_cases |-> <<>>, enqueued_at |-> 0]

\* RedisQueueService.enqueue_submission: job_data
job_data(submission_id, language, code, test_cases, now) ==
  [submission_id |-> submission_id, language |-> lower(language),
   code |-> code, test_cases |-> test_cases, enqueued_at |-> now]

\* _process_job: the ExecutionResultDTO built from the executor's
\* dictionary.  The pipeline state keeps verdicts and score; the measured
\* times stay with the executor model.
NoResult == [status |-> "none", score |-> 0, cases |-> <<>>]

ExecutionResultDTO(raw_result) ==
  [status |-> raw_result.status, score |-> raw_result.score,
   cases |-> [i \in 1..Len(raw_result.cases) |->
                [case_id |-> raw_result.cases[i].case_id,
                 status |-> raw_result.cases[i].status]]]

\* ProcessSubmissionUseCase.complete: the fields it writes to the row
CompletedRow(row, result) ==
  [row EXCEPT !.status = result.status, !.score = result.score,
              !.cases = result.cases]

\* _mark_failed and the worker's failure branches
FailedRow(row) ==
  [row EXCEPT !.status = "RUNTIME_ERROR", !.score = 0, !.cases = <<>>]

\* no submit request has arrived yet
NoRequest ==
  [user_role |-> "STUDENT", language |-> "PYTHON", code |-> {},
   length |-> 0, tick |-> 0]

\* an API handler that is not running
ApiIdle ==
  [op |-> "idle", pc |-> "idle", sid |-> 0, sub |-> NoRow, job |-> NoJob]

\* CodeExecutionWorker.__init__: self.language = language.upper()
\* running is the loop flag of start().  exc records, for the properties,
\* whether an exception was raised while the current or latest job was
\* processed: "raised", or "mark_failed" when the write of RUNTIME_ERROR
\* that follows it failed as well.
NewWorker(language) ==
  [language |-> upper(language), pc |-> "poll", job |-> NoJob,
   result_dto |-> NoResult, running |-> TRUE, exc |-> "none"]

\* CodeExecutionWorker.start: _process_job has returned and the loop tests
\* "while self.running" before the next dequeue (the first variant also
\* leaves the loop when the job raised)
LoopTop_exit_on_error(worker) ==
  [worker EXCEPT !.pc = IF worker.running /\ worker.exc = "none"
                          THEN "poll" ELSE "stopped",
                 !.job = NoJob, !.result_dto = NoResult]
LoopTop(worker) ==
  [worker EXCEPT !.pc = IF worker.running THEN "poll" ELSE "stopped",
                 !.job = NoJob, !.result_dto = NoResult]

(***************************************************************************)
(* State.                                                                  *)
(***************************************************************************)
VARIABLES
  \* the executor state of one execute_code call
  ex,
  \* Redis: the job list of each language queue, head first
  queue,
  \* Redis: submission:status:<id>, "none" while the key is absent
  status_key,
  \* Redis: submission:result:<id>
  result_key,
  \* the submissions table
  store,
  \* the challenge's stored test cases
  challenge,
  \* the worker processes
  wk,
  \* the API request being handled
  api,
  \* number of jobs pushed so far; a job's enqueued_at is its push number
  clock,
  \* history: per queue, the jobs in the order enqueue_submission pushed them
  enq_log,
  \* history: per queue, the jobs in the order dequeue_submission returned
  \* them, each with the worker that received it and the number of jobs
  \* it left behind in the queue
  deq_log,
  \* the challenge's status, "missing" when there is no such challenge
  challenge_status,
  \* the latest submit request: its inputs, and a bit that flips with
  \* every request
  req,
  \* number of faults injected so far (failed operations, killed or
  \* signalled worker processes)
  faults,
  \* history: the jobs a worker process held when it died after marking
  \* the submission RUNNING and before writing a verdict
  orphans,
  \* history: the jobs in the order their submissions were marked RUNNING
  running_log,
  \* the worker manager process: its arguments, its position in main and
  \* its children
  mgr,
  \* a text and what _normalize_output made of it, once and twice
  norm,
  \* the latest call of peek_queue or get_queue_length: what it returned
  \* (of each job its enqueued_at), and a bit that flips with every call
  peek

\* WorkerManager.SUPPORTED_LANGUAGES
SUPPORTED_LANGUAGES == {"python", "java", "nodejs", "cpp"}

\* WorkerManager.__init__: self.workers = {}; a language that is not a key
\* of the dict is "none", a key is "alive" or "dead" as is_alive() of its
\* Process says; restarts counts the "worker died, restarting..." lines of
\* its log
NoManager ==
  [monitor |-> FALSE, languages |-> {}, pc |-> "off", restarts |-> 0,
   workers |-> [l \in SUPPORTED_LANGUAGES |-> "none"]]

\* no text has been normalized
NoNorm == [executor |-> "python", x |-> <<>>, once |-> <<>>, twice |-> <<>>,
           pc |-> "off"]

\* no queue has been inspected
NoPeek == [op |-> "none", items |-> <<>>, length |-> 0, tick |-> 0]

\* the history and fault variables
hvars == <<faults, orphans, running_log>>

pvars ==
  <<queue, status_key, result_key, store, challenge, wk, api, clock,
    enq_log, deq_log, challenge_status, mgr, norm, peek, req, hvars>>

vars == <<ex, pvars>>

\* the languages of the sample submissions and of the deployed workers
SubmitLanguages == {"PYTHON", "NODEJS"}
WorkerLanguages == {"python", "nodejs"}

SubIds == 1..MaxSubs
Workers == 1..NumWorkers

\* number of rows in the submissions table
RowCount == Cardinality({s \in SubIds : store[s].exists})

\* the sample challenges: one stored test case each
ChallengeSamples == {<<tc>> : tc \in StoredCaseSamples}

\* nothing submitted, nothing queued, no fault yet
QueueInit ==
  /\ queue = [l \in Langs |-> <<>>]
  /\ status_key = [s \in SubIds |-> "none"]
  /\ result_key = [s \in SubIds |-> NoResult]
  /\ store = [s \in SubIds |-> NoRow]
  /\ api = ApiIdle
  /\ clock = 0
  /\ enq_log = [l \in Langs |-> <<>>]
  /\ deq_log = [l \in Langs |-> <<>>]
  /\ req = NoRequest
  /\ faults = 0
  /\ orphans = {}
  /\ running_log = <<>>

PipelineInit ==
  /\ QueueInit
  /\ mgr = NoManager
  /\ norm = NoNorm
  /\ peek = NoPeek
  /\ challenge \in ChallengeSamples
  /\ challenge_status = "published"
  \* the first worker consumes python, every other one any worker language
  /\ wk \in {f \in [Workers -> {NewWorker(l) : l \in WorkerLanguages}] :
               f[1] = NewWorker("python")}

(***************************************************************************)
(* SpecExec: one call of execute_code, step by step, for every language,   *)
(* sample source and test-case list.                                       *)
(***************************************************************************)
\* sample sources of a language: a plain one, one with a deny-list entry
\* and, for Java, one without a class definition
CodeSamples(lang) ==
  CASE lang = "python" -> {{"print(1)"}, {"print(1)", "import os"}}
    [] lang = "java" ->
         {{"class Solution"}, {"class Solution", "java.net"},
          {"int x = 1;"}}
    [] lang = "nodejs" ->
         {{"console.log(1)"}, {"console.log(1)", "require('fs')"}}
    [] lang = "cpp" -> {{"int main() {}"}, {"int main() {}", "<cstdlib>"}}

\* sample test cases as ProcessSubmissionUseCase.execute hands them over:
\* an empty input has become None
TestCaseSamples ==
  {[input |-> None, expected_output |-> <<"a", "\n">>],
   [input |-> <<"5">>, expected_output |-> <<"a", "\n">>]}

\* the test-case lists of at most n cases
TestLists(n) ==
  UNION {[1..k -> TestCaseSamples] : k \in 1..n}

InitExec ==
  /\ PipelineInit
  /\ ex \in UNION {{ExecStart(lang, code, tests, TimeLimit) :
                    code \in CodeSamples(lang),
                    tests \in TestLists(MaxCases)} : lang \in Langs}

Exec_Validate ==
  /\ ex.pc = "validate"
  /\ ex' \in ExecValidate(ex)
  /\ UNCHANGED pvars

Exec_Compile ==
  /\ ex.pc = "compile"
  /\ ex' \in ExecCompile(ex)
  /\ UNCHANGED pvars

Exec_Case ==
  /\ ex.pc = "cases"
  /\ Len(ex.results) < Len(ex.test_cases)
  /\ ex' \in ExecCase(ex)
  /\ UNCHANGED pvars

\* execute_code with a loop that ends after the first case that is not
\* accepted
Exec_Aggregate_stop_early ==
  /\ ex.pc = "cases"
  /\ \/ Len(ex.results) = Len(ex.test_cases)
     \/ /\ ex.results # <<>>
        /\ ex.results[Len(ex.results)].status # "ACCEPTED"
  /\ ex' \in ExecAggregate(ex)
  /\ UNCHANGED pvars
Exec_Aggregate ==
  /\ ex.pc = "cases"
  /\ Len(ex.results) = Len(ex.test_cases)
  /\ ex' \in ExecAggregate(ex)
  /\ UNCHANGED pvars

NextExec == Exec_Validate \/ Exec_Compile \/ Exec_Case \/ Exec_Aggregate

SpecExec == InitExec /\ [][NextExec]_vars

(***************************************************************************)
(* Spec: the pipeline.  One API request at a time (a submit or a manual    *)
(* enqueue) runs against NumWorkers worker processes.  Each action is one  *)
(* Redis command or one unit of database work of the handler it belongs    *)
(* to, so the handlers of different processes interleave between them.     *)
(***************************************************************************)
ExecIdle == [ExecStart("python", {}, <<>>, TimeLimit) EXCEPT !.pc = "done"]

Init == ex = ExecIdle /\ PipelineInit

\* UserRole
UserRole == {"STUDENT", "PROFESSOR", "ADMIN"}

\* ChallengeStatus, and "missing" for a challenge id nobody created
ChallengeStates == {"missing", "draft", "published", "archived"}

\* Challenge.can_be_viewed_by
can_be_viewed_by(user_role) ==
  challenge_status = "published" \/ user_role \in {"ADMIN", "PROFESSOR"}

\* SubmitSolutionUseCase._validate_code: the code has non-blank text and at
\* most MAX_CODE_LENGTH characters
_validate_code(code, length) ==
  /\ code # {}
  /\ length > 0
  /\ length <= MAX_CODE_LENGTH

\* SubmitSolutionUseCase.execute: the checks made before the row is saved,
\* "none" when they all pass
SubmitError_no_case_check(user_role, code, length) ==
  IF user_role # "STUDENT" THEN "Only students can submit solutions"
  ELSE IF challenge_status = "missing" THEN "Challenge not found"
  ELSE IF challenge_status # "published" THEN "Challenge is not available"
  ELSE IF ~can_be_viewed_by(user_role) THEN "Access denied"
  ELSE IF ~_validate_code(code, length) THEN "Code is invalid"
  ELSE "none"
SubmitError(user_role, code, length) ==
  IF user_role # "STUDENT" THEN "Only students can submit solutions"
  ELSE IF challenge_status = "missing" THEN "Challenge not found"
  ELSE IF challenge_status # "published" THEN "Challenge is not available"
  ELSE IF ~can_be_viewed_by(user_role) THEN "Access denied"
  ELSE IF challenge = <<>> THEN "Challenge has no test cases"
  ELSE IF ~_validate_code(code, length) THEN "Code is invalid"
  ELSE "none"

\* SubmitSolutionUseCase.execute up to the saved QUEUED row, or up to the
\* ValueError of a failed check
SubmitSolution(user_role, language, code, length) ==
  /\ api.op = "idle"
  /\ RowCount < MaxSubs
  /\ clock < MaxJobs
  /\ req' = [user_role |-> user_role, language |-> language, code |-> code,
             length |-> length, tick |-> 1 - req.tick]
  /\ IF SubmitError(user_role, code, length) # "none"
       THEN UNCHANGED <<store, api>>
       ELSE LET s == RowCount + 1
                row == NewSubmission(language, code)
            IN /\ store' = [store EXCEPT ![s] = row]
               /\ api' = [op |-> "submit", pc |-> "push", sid |-> s,
                          sub |-> row,
                          job |-> job_data(s, language, code, challenge,
                                           clock + 1)]
  /\ UNCHANGED <<ex, queue, status_key, result_key, challenge, wk, clock,
                 enq_log, deq_log, challenge_status, mgr, norm, peek, hvars>>

\* the length of a sample source: one character per fragment stands for it
CodeLength(code) == Cardinality(code)

\* a student submits a sample source to the published challenge
Submit ==
  \E language \in SubmitLanguages :
    \E code \in CodeSamples(lower(language)) :
      SubmitSolution("STUDENT", language, code, CodeLength(code))

\* submissions_controller.enqueue_submission up to the call of
\* redis_queue.enqueue_submission: the row and the test cases are read
ManualEnqueue ==
  /\ api.op = "idle"
  /\ clock < MaxJobs
  /\ challenge_status # "missing"
  /\ challenge # <<>>
  /\ \E s \in SubIds :
       /\ store[s].exists
       /\ api' = [op |-> "enqueue", pc |-> "push", sid |-> s,
                  sub |-> store[s],
                  job |-> job_data(s, store[s].language, store[s].code,
                                   challenge, clock + 1)]
  /\ UNCHANGED <<ex, queue, status_key, result_key, store, challenge, wk,
                 clock, enq_log, deq_log, challenge_status, mgr, norm, peek,
                 req, hvars>>

\* a language name that is none of the four
UnknownLanguages == {"ruby"}

\* RedisQueueService.enqueue_submission called for a stored submission
\* with a language it has no queue for: job_data is built as for any other
EnqueueUnknown ==
  /\ api.op = "idle"
  /\ clock < MaxJobs
  /\ \E s \in SubIds, language \in UnknownLanguages :
       /\ store[s].exists
       /\ api' = [op |-> "direct", pc |-> "push", sid |-> s,
                  sub |-> store[s],
                  job |-> job_data(s, language, store[s].code, challenge,
                                   clock + 1)]
  /\ UNCHANGED <<ex, queue, status_key, result_key, store, challenge, wk,
                 clock, enq_log, deq_log, challenge_status, mgr, norm, peek,
                 req, hvars>>

\* RedisQueueService.enqueue_submission: redis_client.lpush
Api_Push ==
  /\ api.pc = "push"
  /\ LET q == _get_queue_name(api.job.language)
     IN /\ queue' = [queue EXCEPT ![q] = lpush(@, api.job)]
        /\ enq_log' = [enq_log EXCEPT ![q] = Append(@, api.job.enqueued_at)]
  /\ clock' = clock + 1
  /\ api' = [api EXCEPT !.pc = "set_status"]
  /\ UNCHANGED <<ex, status_key, result_key, store, challenge, wk, deq_log,
                 challenge_status, mgr, norm, peek, req, faults, orphans,
                 running_log>>

\* RedisQueueService.enqueue_submission: lpush raises and the method
\* returns False; the submit use case raises ValueError, the manual
\* handler answers 500, and neither touches the row again
Api_PushFails ==
  /\ api.pc = "push"
  /\ api' = ApiIdle
  /\ UNCHANGED <<ex, queue, status_key, result_key, store, challenge, wk,
                 clock, enq_log, deq_log, challenge_status, mgr, norm, peek,
                 req, hvars>>

\* RedisQueueService.enqueue_submission: set_submission_status(.., "QUEUED")
Api_SetQueued ==
  /\ api.pc = "set_status"
  /\ status_key' = [status_key EXCEPT ![api.sid] = "QUEUED"]
  /\ api' = IF api.op = "enqueue" THEN [api EXCEPT !.pc = "update"]
            ELSE ApiIdle
  /\ UNCHANGED <<ex, queue, result_key, store, challenge, wk, clock,
                 enq_log, deq_log, challenge_status, mgr, norm, peek, req,
                 hvars>>

\* submissions_controller.enqueue_submission: submission.status = QUEUED
\* and update(submission), with the submission object read at the start
Api_Update ==
  /\ api.pc = "update"
  /\ store' = [store EXCEPT ![api.sid] = [api.sub EXCEPT !.status = "QUEUED"]]
  /\ api' = ApiIdle
  /\ UNCHANGED <<ex, queue, status_key, result_key, challenge, wk, clock,
                 enq_log, deq_log, challenge_status, mgr, norm, peek, req,
                 hvars>>

\* CodeExecutionWorker.start: dequeue_submission returns a job
W_Dequeue(w) ==
  /\ wk[w].pc = "poll"
  /\ LET q == _get_queue_name(wk[w].language)
     IN /\ queue[q] # <<>>
        /\ queue' = [queue EXCEPT ![q] = brpop(@).rest]
        /\ wk' = [wk EXCEPT ![w].pc = "prepare",
                             ![w].job = brpop(queue[q]).item,
                             ![w].exc = "none"]
        /\ deq_log' = [deq_log EXCEPT ![q] =
                         Append(@, [id |-> brpop(queue[q]).item.enqueued_at,
                                    by |-> w,
                                    left |-> Len(brpop(queue[q]).rest)])]
  /\ UNCHANGED <<ex, status_key, result_key, store, challenge, api, clock,
                 enq_log, challenge_status, mgr, norm, peek, req, hvars>>

\* ProcessSubmissionUseCase.execute: the row becomes RUNNING; when the
\* challenge is not found the row is marked failed right after, and as for
\* a row that is not found _process_job returns without touching the cache
W_Prepare(w) ==
  /\ wk[w].pc = "prepare"
  /\ LET s == wk[w].job.submission_id
     IN IF store[s].exists
          THEN /\ running_log' = Append(running_log, wk[w].job.enqueued_at)
               /\ IF challenge_status = "missing"
                    THEN /\ store' = [store EXCEPT ![s] = FailedRow(@)]
                         /\ wk' = [wk EXCEPT ![w] = LoopTop(wk[w])]
                    ELSE /\ store' = [store EXCEPT ![s].status = "RUNNING"]
                         /\ wk' = [wk EXCEPT ![w].pc = "cache_running"]
          ELSE /\ wk' = [wk EXCEPT ![w] = LoopTop(wk[w])]
               /\ UNCHANGED <<store, running_log>>
  /\ UNCHANGED <<ex, queue, status_key, result_key, challenge, api, clock,
                 enq_log, deq_log, challenge_status, mgr, norm, peek, req,
                 faults, orphans>>

\* _process_job: set_submission_status(.., "RUNNING"), then the language
\* check, which marks the row failed and drops the job on a mismatch (the
\* first variant has no language check and runs whatever it dequeued)
W_CacheRunning_no_check(w) ==
  /\ wk[w].pc = "cache_running"
  /\ LET s == wk[w].job.submission_id
     IN status_key' = [status_key EXCEPT ![s] = "RUNNING"]
  /\ wk' = [wk EXCEPT ![w].pc = "run"]
  /\ UNCHANGED <<ex, queue, result_key, store, challenge, api, clock,
                 enq_log, deq_log, challenge_status, mgr, norm, peek, req,
                 hvars>>
W_CacheRunning(w) ==
  /\ wk[w].pc = "cache_running"
  /\ LET s == wk[w].job.submission_id
     IN /\ status_key' = [status_key EXCEPT ![s] = "RUNNING"]
        /\ IF upper(wk[w].job.language) # wk[w].language
             THEN /\ store' = [store EXCEPT ![s] = FailedRow(@)]
                  /\ wk' = [wk EXCEPT ![w] = LoopTop(wk[w])]
             ELSE /\ wk' = [wk EXCEPT ![w].pc = "run"]
                  /\ UNCHANGED store
  /\ UNCHANGED <<ex, queue, result_key, challenge, api, clock, enq_log,
                 deq_log, challenge_status, mgr, norm, peek, req, hvars>>

\* _process_job: executor.execute_code on the execution context
W_Run(w) ==
  /\ wk[w].pc = "run"
  /\ \E raw_result \in
         execute_code(ExecStart(lower(wk[w].language), wk[w].job.code,
                                ContextCases(wk[w].job.test_cases),
                                TimeLimit)) :
       wk' = [wk EXCEPT ![w].pc = "complete",
                        ![w].result_dto = ExecutionResultDTO(raw_result)]
  /\ UNCHANGED <<ex, queue, status_key, result_key, store, challenge, api,
                 clock, enq_log, deq_log, challenge_status, mgr, norm, peek,
                 req, hvars>>

\* _process_job: process_use_case.complete(result_dto)
W_Complete(w) ==
  /\ wk[w].pc = "complete"
  /\ LET s == wk[w].job.submission_id
     IN store' = IF store[s].exists
                   THEN [store EXCEPT ![s] = CompletedRow(@, wk[w].result_dto)]
                   ELSE store
  /\ wk' = [wk EXCEPT ![w].pc = "cache_result"]
  /\ UNCHANGED <<ex, queue, status_key, result_key, challenge, api, clock,
                 enq_log, deq_log, challenge_status, mgr, norm, peek, req,
                 hvars>>

\* _process_job: queue_adapter.cache_execution_result(result_dto)
W_CacheResult(w) ==
  /\ wk[w].pc = "cache_result"
  /\ LET s == wk[w].job.submission_id
     IN /\ result_key' = [result_key EXCEPT ![s] = wk[w].result_dto]
        /\ status_key' = [status_key EXCEPT ![s] = wk[w].result_dto.status]
  /\ wk' = [wk EXCEPT ![w] = LoopTop(wk[w])]
  /\ UNCHANGED <<ex, queue, store, challenge, api, clock, enq_log, deq_log,
                 challenge_status, mgr, norm, peek, req, hvars>>

(***************************************************************************)
(* Faults: operations of a job that raise, and worker processes that are   *)
(* killed or signalled.  At most MaxFaults of them happen in a behaviour.  *)
(***************************************************************************)
Fault ==
  /\ faults < MaxFaults
  /\ faults' = faults + 1

\* ProcessSubmissionUseCase.execute raises inside its try block and
\* returns (False, None); _process_job logs and returns.  Either the row
\* was not yet written (find_by_id or update raised) or it is RUNNING
\* already (challenge_repository.find_by_id raised).
W_PrepareFails(w) ==
  /\ wk[w].pc = "prepare"
  /\ Fault
  /\ LET s == wk[w].job.submission_id
     IN \/ UNCHANGED <<store, running_log>>
        \/ /\ store[s].exists
           /\ store' = [store EXCEPT ![s].status = "RUNNING"]
           /\ running_log' = Append(running_log, wk[w].job.enqueued_at)
  /\ wk' = [wk EXCEPT ![w] = LoopTop([wk[w] EXCEPT !.exc = "raised"])]
  /\ UNCHANGED <<ex, queue, status_key, result_key, challenge, api, clock,
                 enq_log, deq_log, challenge_status, mgr, norm, peek, req,
                 orphans>>

\* _process_job: executor.execute_code or the construction of the result
\* DTO raises; the handler of the outer try marks the row RUNTIME_ERROR,
\* unless that write raises too
W_RunRaises(w) ==
  /\ wk[w].pc = "run"
  /\ Fault
  /\ LET s == wk[w].job.submission_id
     IN \/ /\ store' = IF store[s].exists
                         THEN [store EXCEPT ![s] = FailedRow(@)]
                         ELSE store
           /\ wk' = [wk EXCEPT ![w] = LoopTop([wk[w] EXCEPT !.exc = "raised"])]
        \/ /\ UNCHANGED store
           /\ wk' = [wk EXCEPT ![w] =
                       LoopTop([wk[w] EXCEPT !.exc = "mark_failed"])]
  /\ UNCHANGED <<ex, queue, status_key, result_key, challenge, api, clock,
                 enq_log, deq_log, challenge_status, mgr, norm, peek, req,
                 orphans,
                 running_log>>

\* ProcessSubmissionUseCase.complete raises inside its try block and
\* returns False; _process_job ignores the value and goes on to the cache
W_CompleteFails(w) ==
  /\ wk[w].pc = "complete"
  /\ Fault
  /\ wk' = [wk EXCEPT ![w].pc = "cache_result", ![w].exc = "raised"]
  /\ UNCHANGED <<ex, queue, status_key, result_key, store, challenge, api,
                 clock, enq_log, deq_log, challenge_status, mgr, norm, peek,
                 req, orphans, running_log>>

\* QueueAdapter.cache_execution_result raises inside its try block and
\* returns False: neither key is written
W_CacheResultFails(w) ==
  /\ wk[w].pc = "cache_result"
  /\ Fault
  /\ wk' = [wk EXCEPT ![w] = LoopTop(wk[w])]
  /\ UNCHANGED <<ex, queue, status_key, result_key, store, challenge, api,
                 clock, enq_log, deq_log, challenge_status, mgr, norm, peek,
                 req, orphans, running_log>>

\* the worker process is killed (SIGKILL, out of memory, host failure)
W_Crash(w) ==
  /\ wk[w].pc \notin {"dead", "stopped"}
  /\ Fault
  /\ wk' = [wk EXCEPT ![w].pc = "dead"]
  /\ orphans' = IF wk[w].pc \in {"cache_running", "run", "complete"}
                  THEN orphans \cup {wk[w].job}
                  ELSE orphans
  /\ UNCHANGED <<ex, queue, status_key, result_key, store, challenge, api,
                 clock, enq_log, deq_log, challenge_status, mgr, norm, peek,
                 req,
                 running_log>>

\* WorkerManager.monitor_workers finds the process dead and start_worker
\* runs a new CodeExecutionWorker for the language (the first variant also
\* puts the job the dead worker held back into its queue)
W_Restart_requeue(w) ==
  /\ wk[w].pc = "dead"
  /\ wk' = [wk EXCEPT ![w] = NewWorker(lower(wk[w].language))]
  /\ queue' = IF wk[w].job = NoJob THEN queue
              ELSE [queue EXCEPT ![_get_queue_name(wk[w].job.language)] =
                      lpush(@, wk[w].job)]
  /\ UNCHANGED <<ex, status_key, result_key, store, challenge, api,
                 clock, enq_log, deq_log, challenge_status, mgr, norm, peek,
                 req, hvars>>
W_Restart(w) ==
  /\ wk[w].pc = "dead"
  /\ wk' = [wk EXCEPT ![w] = NewWorker(lower(wk[w].language))]
  /\ UNCHANGED <<ex, queue, status_key, result_key, store, challenge, api,
                 clock, enq_log, deq_log, challenge_status, mgr, norm, peek,
                 req, hvars>>

\* CodeExecutionWorker._signal_handler: SIGINT or SIGTERM clears running
W_Signal(w) ==
  /\ wk[w].pc \notin {"dead", "stopped"}
  /\ wk[w].running
  /\ Fault
  /\ wk' = [wk EXCEPT ![w].running = FALSE]
  /\ UNCHANGED <<ex, queue, status_key, result_key, store, challenge, api,
                 clock, enq_log, deq_log, challenge_status, mgr, norm, peek,
                 req, orphans, running_log>>

\* CodeExecutionWorker.start: the dequeue times out with running cleared
\* and the loop ends
W_Stop(w) ==
  /\ wk[w].pc = "poll"
  /\ ~wk[w].running
  /\ wk' = [wk EXCEPT ![w].pc = "stopped"]
  /\ UNCHANGED <<ex, queue, status_key, result_key, store, challenge, api,
                 clock, enq_log, deq_log, challenge_status, mgr, norm, peek,
                 req, hvars>>

Next ==
  \/ Submit
  \/ ManualEnqueue
  \/ Api_Push
  \/ Api_PushFails
  \/ Api_SetQueued
  \/ Api_Update
  \/ \E w \in Workers : W_Dequeue(w)
  \/ \E w \in Workers : W_Prepare(w)
  \/ \E w \in Workers : W_CacheRunning(w)
  \/ \E w \in Workers : W_Run(w)
  \/ \E w \in Workers : W_Complete(w)
  \/ \E w \in Workers : W_CacheResult(w)

Spec == Init /\ [][Next]_vars

(***************************************************************************)
(* SpecApi: the request handlers alone, for every kind of submit request   *)
(* and every state of the challenge; a professor may add test cases.       *)
(***************************************************************************)
\* the code of a submit request with its length: no text, a sample source
\* of its own length, at the cap, and one character over the cap
RequestCodes(language) ==
  {[code |-> {}, length |-> 0]} \cup
  {[code |-> c, length |-> n] :
     c \in CodeSamples(lower(language)),
     n \in {1, MAX_CODE_LENGTH, MAX_CODE_LENGTH + 1}}

\* any user submits anything
SubmitAny ==
  \E user_role \in UserRole, language \in SubmitLanguages :
    \E r \in RequestCodes(language) :
      SubmitSolution(user_role, language, r.code, r.length)

\* challenges_controller.create_test_case: a test case is saved
AddTestCase ==
  /\ challenge_status # "missing"
  /\ Len(challenge) < MaxStoredCases
  /\ \E tc \in StoredCaseSamples : challenge' = Append(challenge, tc)
  /\ UNCHANGED <<ex, queue, status_key, result_key, store, wk, api, clock,
                 enq_log, deq_log, challenge_status, mgr, norm, peek, req,
                 hvars>>

InitApi ==
  /\ ex = ExecIdle
  /\ QueueInit
  /\ mgr = NoManager
  /\ norm = NoNorm
  /\ peek = NoPeek
  /\ challenge \in {<<>>} \cup ChallengeSamples
  /\ challenge_status \in ChallengeStates
  /\ wk = [w \in Workers |-> NewWorker("python")]

NextApi ==
  \/ SubmitAny
  \/ ManualEnqueue
  \/ Api_Push
  \/ Api_PushFails
  \/ Api_SetQueued
  \/ Api_Update
  \/ AddTestCase

SpecApi == InitApi /\ [][NextApi]_vars

(***************************************************************************)
(* SpecFaults: the pipeline with faults.  Worker 1 serves python alone,    *)
(* the other workers serve nodejs.                                         *)
(***************************************************************************)
InitFaults ==
  /\ ex = ExecIdle
  /\ QueueInit
  /\ mgr = NoManager
  /\ norm = NoNorm
  /\ peek = NoPeek
  /\ challenge \in ChallengeSamples
  /\ challenge_status = "published"
  /\ wk = [w \in Workers |->
             NewWorker(IF w = 1 THEN "python" ELSE "nodejs")]

NextFaults ==
  \/ Next
  \/ \E w \in Workers : W_PrepareFails(w)
  \/ \E w \in Workers : W_RunRaises(w)
  \/ \E w \in Workers : W_CompleteFails(w)
  \/ \E w \in Workers : W_CacheResultFails(w)
  \/ \E w \in Workers : W_Crash(w)
  \/ \E w \in Workers : W_Restart(w)
  \/ \E w \in Workers : W_Signal(w)
  \/ \E w \in Workers : W_Stop(w)

SpecFaults == InitFaults /\ [][NextFaults]_vars

(***************************************************************************)
(* SpecRouting: the pipeline with jobs of a language no queue is named     *)
(* for.  enqueue_submission is also called directly for a stored           *)
(* submission with such a language; _get_queue_name sends the job to the   *)
(* python queue.  Worker 1 serves python, the other workers nodejs.        *)
(***************************************************************************)
InitRouting == InitFaults

NextRouting == Next \/ EnqueueUnknown

SpecRouting == InitRouting /\ [][NextRouting]_vars

(***************************************************************************)
(* Fairness.  A request handler that has started runs to its end, and a    *)
(* worker process that is alive keeps taking steps: its dequeue returns    *)
(* within the timeout, every run of a program ends at the runner's         *)
(* timeout at the latest, and a store or cache call returns.  Nothing      *)
(* obliges a client to send a request or a fault to happen.                *)
(***************************************************************************)
\* the next step of the request handler that is running
ApiStep == Api_Push \/ Api_SetQueued \/ Api_Update

\* the next step of worker w outside the executor: which one depends on
\* its position alone
WorkerStep(w) ==
  \/ W_Dequeue(w)
  \/ W_Prepare(w)
  \/ W_CacheRunning(w)
  \/ W_Complete(w)
  \/ W_CacheResult(w)

\* execute_code returns: DockerRunner._run_container waits for the
\* container under asyncio.wait_for and kills it at the timeout, so no
\* worker stays in the executor forever
ExecutorReturns(w) == []<>(wk[w].pc # "run")

Fairness ==
  /\ WF_vars(ApiStep)
  /\ \A w \in Workers : WF_vars(WorkerStep(w))
  /\ \A w \in Workers : ExecutorReturns(w)

(***************************************************************************)
(* SpecCache: the fair pipeline with every way in which a worker leaves a  *)
(* row terminal: a verdict, a job of another language, a challenge that    *)
(* was deleted after the job was enqueued, and an executor that raises.    *)
(***************************************************************************)
\* ChallengeRepositoryImpl.delete
DeleteChallenge ==
  /\ challenge_status # "missing"
  /\ challenge_status' = "missing"
  /\ UNCHANGED <<ex, queue, status_key, result_key, store, challenge, wk,
                 api, clock, enq_log, deq_log, mgr, norm, peek, req, hvars>>

InitCache == InitFaults

NextCache ==
  \/ NextRouting
  \/ DeleteChallenge
  \/ \E w \in Workers : W_RunRaises(w)

SpecCache == InitCache /\ [][NextCache]_vars /\ Fairness

(***************************************************************************)
(* SpecLive: the fair pipeline without faults: every store and queue       *)
(* operation succeeds.  Worker 1 serves python, the other workers nodejs,  *)
(* so every queue that receives jobs has a worker that keeps running.      *)
(***************************************************************************)
InitLive == InitFaults

\* every queue operation succeeds
NextLive ==
  \/ Submit
  \/ ManualEnqueue
  \/ Api_Push
  \/ Api_SetQueued
  \/ Api_Update
  \/ \E w \in Workers : W_Dequeue(w)
  \/ \E w \in Workers : W_Prepare(w)
  \/ \E w \in Workers : W_CacheRunning(w)
  \/ \E w \in Workers : W_Run(w)
  \/ \E w \in Workers : W_Complete(w)
  \/ \E w \in Workers : W_CacheResult(w)

SpecLive == InitLive /\ [][NextLive]_vars /\ Fairness

(***************************************************************************)
(* Properties of the executors, checked under SpecExec.                    *)
(***************************************************************************)
\* the statuses that occur in a list of case results
StatusesOf(cases) == {cases[i].status : i \in 1..Len(cases)}

\* the executor went through the whole test-case loop
LoopFinished == ex.pc = "done" /\ ex.results # <<>>

\* C4: the aggregate verdict of a non-empty case list follows the
\* precedence COMPILATION_ERROR, RUNTIME_ERROR, TIME_LIMIT_EXCEEDED, then
\* ACCEPTED when every case is accepted, else WRONG_ANSWER.
C4_AggregatePrecedence ==
  LoopFinished =>
    LET S == StatusesOf(ex.results)
    IN /\ "COMPILATION_ERROR" \in S => ex.ret.status = "COMPILATION_ERROR"
       /\ ("COMPILATION_ERROR" \notin S /\ "RUNTIME_ERROR" \in S)
            => ex.ret.status = "RUNTIME_ERROR"
       /\ (S \cap {"COMPILATION_ERROR", "RUNTIME_ERROR"} = {}
             /\ "TIME_LIMIT_EXCEEDED" \in S)
            => ex.ret.status = "TIME_LIMIT_EXCEEDED"
       /\ S = {"ACCEPTED"} => ex.ret.status = "ACCEPTED"
       /\ (S \subseteq {"ACCEPTED", "WRONG_ANSWER"} /\ "WRONG_ANSWER" \in S)
            => ex.ret.status = "WRONG_ANSWER"

\* a finished run whose cases mix a runtime error, a timeout, an accepted
\* and no compilation error: the verdict is RUNTIME_ERROR
C4_Witness ==
  /\ LoopFinished
  /\ StatusesOf(ex.results)
       = {"RUNTIME_ERROR", "TIME_LIMIT_EXCEEDED", "ACCEPTED"}
  /\ ex.ret.status = "RUNTIME_ERROR"

\* round(100 * a / n) for 0 <= a <= n, n >= 1; 100 * a / n falls half way
\* between two integers only when 8 divides n, so for n < 8 rounding half
\* up and Python's rounding half to even agree
Round100(a, n) == (200 * a + n) \div (2 * n)

AcceptedCount(cases) ==
  Cardinality({i \in 1..Len(cases) : cases[i].status = "ACCEPTED"})

\* C5: the score of a finished run is round(100 * accepted / total).
C5_ScoreIsRounded ==
  LoopFinished =>
    ex.ret.score = Round100(AcceptedCount(ex.ret.cases), Len(ex.ret.cases))

\* C6: a case whose sandbox run was cut off by the runner's timeout
\* (exit code 124, elapsed = time limit) is TIME_LIMIT_EXCEEDED, and the
\* loop goes on to the remaining cases.
C6_TimeoutIsTLE ==
  /\ \A i \in ex.cut_off : ex.results[i].status = "TIME_LIMIT_EXCEEDED"
  /\ (ex.pc = "done" /\ ex.cut_off # {})
       => Len(ex.results) = Len(ex.test_cases)

\* the verdict the five rules give, in their order
RuleVerdict(seen, time_limit) ==
  IF seen.execution_time_ms > time_limit THEN "TIME_LIMIT_EXCEEDED"
  ELSE IF seen.exit_code # 0 /\ seen.compiler_stderr
    THEN "COMPILATION_ERROR"
  ELSE IF seen.exit_code # 0 THEN "RUNTIME_ERROR"
  ELSE IF seen.output_ok THEN "ACCEPTED"
  ELSE "WRONG_ANSWER"

\* C7: in every executor the verdict of a test case that was run is the
\* first matching rule of: elapsed > limit, non-zero exit with compiler
\* stderr, non-zero exit, equal normalized outputs, otherwise wrong answer.
C7_CaseVerdictOrder ==
  (ex.last.phase = "case" /\ ex.results # <<>>) =>
    ex.results[Len(ex.results)].status = RuleVerdict(ex.last, ex.time_limit)

\* C9: source with a deny-list entry of its language ends in
\* COMPILATION_ERROR with no case executed and no sandbox or subprocess
\* invocation.
C9_DenyListRejects ==
  (ex.code \cap DenyList(ex.lang) # {}) =>
    /\ ex.results = <<>>
    /\ ex.calls = 0
    /\ ex.pc = "done" => ex.ret.status = "COMPILATION_ERROR"

\* C10: for C++ and Java a failed compile step (non-zero compiler exit or
\* compiler error markers in stderr) ends the call with COMPILATION_ERROR,
\* exactly one synthetic COMPILATION_ERROR case and no test case executed.
C10_CompileFailure ==
  (/\ ex.lang \in CompiledLangs
   /\ ex.last.phase = "compile"
   /\ ex.last.exit_code # 0 \/ ex.last.compiler_stderr) =>
    /\ ex.pc = "done"
    /\ ex.ret.status = "COMPILATION_ERROR"
    /\ Len(ex.ret.cases) = 1
    /\ ex.ret.cases[1].status = "COMPILATION_ERROR"
    /\ ex.results = <<>>

\* C14: the executor runs the test cases one after another in list order
\* and, once validation and compilation have passed, does not stop before
\* the last one whatever the earlier verdicts: it returns one result per
\* test case, in the order of the list.  It returns without any result
\* only with the COMPILATION_ERROR of a failed validation or compile.
C14_EveryCaseInOrder ==
  /\ \A i \in 1..Len(ex.results) : ex.results[i].case_id = i
  /\ ex.pc = "done" =>
       IF ex.results = <<>>
         THEN ex.ret.status = "COMPILATION_ERROR"
         ELSE /\ Len(ex.results) = Len(ex.test_cases)
              /\ ex.ret.cases = ex.results

\* a finished run of several cases whose first case was not accepted
C14_Witness ==
  /\ ex.pc = "done"
  /\ Len(ex.ret.cases) >= 2
  /\ ex.ret.cases[1].status \in
       {"TIME_LIMIT_EXCEEDED", "RUNTIME_ERROR", "WRONG_ANSWER"}
  /\ ex.ret.cases[Len(ex.ret.cases)].case_id = Len(ex.test_cases)

\* C15: every case result an executor returns, the synthetic case of a
\* failed compile included, has time_ms <= time_limit + 1000, the runner's
\* slack.
C15_CaseTimeBounded ==
  ex.pc = "done" =>
    \A i \in 1..Len(ex.ret.cases) :
      ex.ret.cases[i].time_ms <= ex.time_limit + DOCKER_BUFFER_MS

(***************************************************************************)
(* The worker manager: main of worker_manager.py starts one child process  *)
(* per requested language and then either monitors them (--monitor) or     *)
(* only waits.  Children may exit at any time.                             *)
(***************************************************************************)

\* WorkerManager.start_worker: nothing happens for an unsupported language
\* or for a language that is still a key of self.workers
start_worker(m, language) ==
  IF language \notin SUPPORTED_LANGUAGES THEN m
  ELSE IF m.workers[language] # "none" THEN m
  ELSE [m EXCEPT !.workers[language] = "alive"]

\* the pipeline variables, which the manager does not touch
jvars ==
  <<queue, status_key, result_key, store, challenge, wk, api, clock,
    enq_log, deq_log, challenge_status, req, hvars, norm, peek>>

\* all variables but ex and norm
jvars_but_norm ==
  <<queue, status_key, result_key, store, challenge, wk, api, clock,
    enq_log, deq_log, challenge_status, req, hvars, mgr, peek>>

\* main: the arguments are parsed; --languages names at least one language
\* ("all" stands for all of them), --monitor is off unless given
InitManager ==
  /\ ex = ExecIdle
  /\ QueueInit
  /\ challenge = <<>>
  /\ challenge_status = "published"
  /\ wk = [w \in Workers |-> NewWorker("python")]
  /\ norm = NoNorm
  /\ peek = NoPeek
  /\ mgr \in {[NoManager EXCEPT !.monitor = monitor, !.languages = languages,
                                !.pc = "start"] :
                monitor \in BOOLEAN,
                languages \in (SUBSET SUPPORTED_LANGUAGES) \ {{}}}

\* main: start_all_workers, or start_worker for each language named
M_StartWorker(language) ==
  /\ mgr.pc = "start"
  /\ language \in mgr.languages
  /\ mgr.workers[language] = "none"
  /\ mgr' = start_worker(mgr, language)
  /\ UNCHANGED <<ex, jvars>>

\* main: all workers are started; monitor_workers if --monitor was given,
\* else the loop that only sleeps
M_Started ==
  /\ mgr.pc = "start"
  /\ \A language \in mgr.languages : mgr.workers[language] # "none"
  /\ mgr' = [mgr EXCEPT !.pc = IF mgr.monitor THEN "monitor" ELSE "wait"]
  /\ UNCHANGED <<ex, jvars>>

\* a child process exits: killed, or its worker returned
M_ChildExits(language) ==
  /\ mgr.workers[language] = "alive"
  /\ mgr.restarts < MaxRestarts
  /\ mgr' = [mgr EXCEPT !.workers[language] = "dead"]
  /\ UNCHANGED <<ex, jvars>>

\* WorkerManager.monitor_workers, one child of one pass: a process that is
\* not alive is deleted from self.workers and started again
monitor_workers(language) ==
  /\ mgr.pc = "monitor"
  /\ mgr.workers[language] = "dead"
  /\ mgr' = start_worker([mgr EXCEPT !.workers[language] = "none",
                                      !.restarts = @ + 1], language)
  /\ UNCHANGED <<ex, jvars>>

NextManager ==
  \/ \E language \in SUPPORTED_LANGUAGES : M_StartWorker(language)
  \/ M_Started
  \/ \E language \in SUPPORTED_LANGUAGES : M_ChildExits(language)
  \/ \E language \in SUPPORTED_LANGUAGES : monitor_workers(language)

\* main runs on without waiting, and monitor_workers makes a pass every 5
\* seconds for as long as the manager runs; nothing makes a child exit
SpecManager ==
  /\ InitManager
  /\ [][NextManager]_vars
  /\ \A language \in SUPPORTED_LANGUAGES :
       /\ WF_vars(M_StartWorker(language))
       /\ WF_vars(monitor_workers(language))
  /\ WF_vars(M_Started)

(***************************************************************************)
(* SpecNormalize: _normalize_output of each executor, applied to a text    *)
(* and then to its own result.                                             *)
(***************************************************************************)

\* spaces, CR, LF and an ordinary character
Alphabet == {" ", "\r", "\n", "a"}

Texts(n) == UNION {[1..k -> Alphabet] : k \in 0..n}

\* the _normalize_output method of the executor of a language
_normalize_output(language, output) ==
  IF language = "python" THEN py_normalize_output(output)
  ELSE docker_normalize_output(output)

InitNormalize ==
  /\ ex = ExecIdle
  /\ QueueInit
  /\ challenge = <<>>
  /\ challenge_status = "published"
  /\ wk = [w \in Workers |-> NewWorker("python")]
  /\ mgr = NoManager
  /\ peek = NoPeek
  /\ norm \in {[NoNorm EXCEPT !.executor = language, !.x = x, !.pc = "start"] :
                 language \in Langs, x \in Texts(MaxLen)}

N_Once ==
  /\ norm.pc = "start"
  /\ norm' = [norm EXCEPT !.once = _normalize_output(norm.executor, norm.x),
                          !.pc = "once"]
  /\ UNCHANGED <<ex, jvars_but_norm>>

N_Twice ==
  /\ norm.pc = "once"
  /\ norm' = [norm EXCEPT !.twice = _normalize_output(norm.executor, norm.once),
                          !.pc = "twice"]
  /\ UNCHANGED <<ex, jvars_but_norm>>

NextNormalize == N_Once \/ N_Twice

SpecNormalize == InitNormalize /\ [][NextNormalize]_vars

(***************************************************************************)
(* SpecPeek: the operations on the queues: the enqueues of the request     *)
(* handlers, the dequeue of the workers, and the two read-only operations. *)
(***************************************************************************)

\* Redis LRANGE: the elements from index start to index end, both counted
\* from 0 at the head and inclusive; a negative index counts from the tail
lrange(list, start, end) ==
  LET n == Len(list)
      s == IF start < 0 THEN (IF n + start < 0 THEN 0 ELSE n + start)
           ELSE start
      e == IF end < 0 THEN n + end
           ELSE IF end > n - 1 THEN n - 1 ELSE end
  IN IF s > e THEN <<>> ELSE SubSeq(list, s + 1, e + 1)

\* the languages a queue is inspected for; "ruby" has no queue of its own
PeekLanguages == {"python", "nodejs", "ruby"}

\* all variables but ex and peek
jvars_but_peek ==
  <<queue, status_key, result_key, store, challenge, wk, api, clock,
    enq_log, deq_log, challenge_status, req, hvars, mgr, norm>>

\* RedisQueueService.peek_queue: redis_client.lrange and json.loads of
\* each item (the first variant takes the items it returns out of the
\* list)
peek_queue_pop(language, start, end) ==
  LET q == _get_queue_name(language)
      items == lrange(queue[q], start, end)
  IN /\ peek' = [op |-> "peek",
                 items |-> [i \in 1..Len(items) |-> items[i].enqueued_at],
                 length |-> Len(items), tick |-> 1 - peek.tick]
     /\ queue' = [queue EXCEPT ![q] =
                    SelectSeq(@, LAMBDA job :
                      \A i \in 1..Len(items) : items[i] # job)]
     /\ UNCHANGED <<ex, status_key, result_key, store, challenge, wk, api,
                    clock, enq_log, deq_log, challenge_status, req, hvars,
                    mgr, norm>>
peek_queue(language, start, end) ==
  LET q == _get_queue_name(language)
      items == lrange(queue[q], start, end)
  IN /\ peek' = [op |-> "peek",
                 items |-> [i \in 1..Len(items) |-> items[i].enqueued_at],
                 length |-> Len(items), tick |-> 1 - peek.tick]
     /\ UNCHANGED <<ex, jvars_but_peek>>

\* RedisQueueService.get_queue_length: redis_client.llen
get_queue_length(language) ==
  /\ peek' = [op |-> "length", items |-> <<>>,
              length |-> Len(queue[_get_queue_name(language)]),
              tick |-> 1 - peek.tick]
  /\ UNCHANGED <<ex, jvars_but_peek>>

InitPeek == Init

NextPeek ==
  \/ Submit
  \/ ManualEnqueue
  \/ Api_Push
  \/ Api_PushFails
  \/ Api_SetQueued
  \/ Api_Update
  \/ \E w \in Workers : W_Dequeue(w)
  \/ \E language \in PeekLanguages : \E start \in 0..1 : \E end \in -1..0 :
       peek_queue(language, start, end)
  \/ \E language \in PeekLanguages : get_queue_length(language)

SpecPeek == InitPeek /\ [][NextPeek]_vars

(***************************************************************************)
(* Properties of the pipeline, checked under Spec.                         *)
(***************************************************************************)
IsPrefix(s, t) ==
  /\ Len(s) <= Len(t)
  /\ \A i \in 1..Len(s) : s[i] = t[i]

\* the jobs dequeue_submission returned from a queue, in order
DequeuedIds(l) == [i \in 1..Len(deq_log[l]) |-> deq_log[l][i].id]

\* C1: on every language queue the jobs come out of dequeue in exactly the
\* order in which enqueue put them in, whatever the interleaving of the
\* enqueues and the dequeues and however many workers consume the queue.
C1_FifoPerQueue ==
  \A l \in Langs : IsPrefix(DequeuedIds(l), enq_log[l])

\* a dequeue returned a job while a younger job was waiting behind it
C1_Witness ==
  \E l \in Langs : \E i \in 1..Len(deq_log[l]) : deq_log[l][i].left >= 1

\* how often a job sits in a queue, and how often a dequeue returned it
\* the positions of a list of records whose field id has the given value
Positions(ids, id) == {i \in 1..Len(ids) : ids[i] = id}

QueuedIds(l) == [i \in 1..Len(queue[l]) |-> queue[l][i].enqueued_at]

RECURSIVE SumOver(_, _)
SumOver(S, f) ==
  IF S = {} THEN 0
  ELSE LET x == CHOOSE y \in S : TRUE
       IN Cardinality(f[x]) + SumOver(S \ {x}, f)

TimesQueued(id) ==
  SumOver(Langs, [l \in Langs |-> Positions(QueuedIds(l), id)])

TimesDequeued(id) ==
  SumOver(Langs, [l \in Langs |-> Positions(DequeuedIds(l), id)])

\* C2: every enqueued job is, at every moment, either still in its queue
\* or was returned by exactly one dequeue call to exactly one worker: no
\* job is returned twice and none disappears without being handed over.
C2_ExactlyOneWorker ==
  \A id \in 1..clock : TimesQueued(id) + TimesDequeued(id) = 1

\* two workers polling the same queue have each received a job from it
C2_Witness ==
  \E l \in Langs : \E i, j \in 1..Len(deq_log[l]) :
    deq_log[l][i].by # deq_log[l][j].by

\* position of a status on the path QUEUED -> RUNNING -> terminal
Rank(status) ==
  CASE status = "RUNNING" -> 1
    [] status \in TerminalStatus -> 2
    [] OTHER -> 0

\* a worker holds a job of submission s and has not finished it
InExecution(s) ==
  \E w \in Workers : wk[w].pc # "poll" /\ wk[w].job.submission_id = s

\* C3: while a worker executes a submission its stored status only moves
\* forward, QUEUED to RUNNING to a terminal status, and a terminal status
\* is not replaced, whatever submit and manual enqueue requests arrive.
C3_StatusMonotone ==
  [][\A s \in SubIds :
       (store[s].exists /\ InExecution(s)) =>
         /\ Rank(store'[s].status) >= Rank(store[s].status)
         /\ store[s].status \in TerminalStatus =>
              store'[s].status = store[s].status]_vars

\* the aggregate precedence rule as the specification states it
AggregateRule(cases) ==
  IF "COMPILATION_ERROR" \in StatusesOf(cases) THEN "COMPILATION_ERROR"
  ELSE IF "RUNTIME_ERROR" \in StatusesOf(cases) THEN "RUNTIME_ERROR"
  ELSE IF "TIME_LIMIT_EXCEEDED" \in StatusesOf(cases)
    THEN "TIME_LIMIT_EXCEEDED"
  ELSE IF StatusesOf(cases) \subseteq {"ACCEPTED"} THEN "ACCEPTED"
  ELSE "WRONG_ANSWER"

\* the submissions the pipeline has left in a terminal status
TerminalSubs == {s \in SubIds : store[s].status \in TerminalStatus}

\* C8: the terminal status of a stored submission is the aggregate rule
\* applied to its stored case list.  For a non-empty list that is the
\* rule's value; for any list COMPILATION_ERROR needs a case with that
\* status; and two terminal submissions with equal case lists have equal
\* statuses.
C8_StatusFromCases ==
  \A s \in TerminalSubs :
    /\ store[s].cases # <<>> =>
         store[s].status = AggregateRule(store[s].cases)
    /\ store[s].status = "COMPILATION_ERROR" =>
         "COMPILATION_ERROR" \in StatusesOf(store[s].cases)
    /\ \A t \in TerminalSubs :
         store[t].cases = store[s].cases =>
           store[t].status = store[s].status

(***************************************************************************)
(* Properties of the pipeline with faults, checked under SpecFaults.       *)
(***************************************************************************)
\* worker w ends the processing of its job in this step
JobEnds(w) ==
  /\ wk[w].pc \notin {"poll", "stopped", "dead"}
  /\ wk'[w].pc \in {"poll", "stopped"}

\* C11: when an exception was raised while a worker processed a job and
\* the write of RUNTIME_ERROR did not itself fail, the worker leaves the
\* submission marked RUNTIME_ERROR in the store when it is done with the
\* job; a failed store operation in prepare or complete does not leave it
\* RUNNING.
C11_FailureMarksRuntimeError ==
  [][\A w \in Workers :
       (JobEnds(w) /\ wk'[w].exc = "raised") =>
         store'[wk[w].job.submission_id].status = "RUNTIME_ERROR"]_vars

(***************************************************************************)
(* Properties of the request handlers, checked under SpecApi.              *)
(***************************************************************************)
\* some queue of qs holds a job of submission s
HasJob(qs, s) ==
  \E l \in Langs : \E i \in 1..Len(qs[l]) : qs[l][i].submission_id = s

\* submit returns the error of a failed enqueue in this step
SubmitEnqueueFails ==
  api.op = "submit" /\ api.pc = "push" /\ api' = ApiIdle

\* C12: when submit returns the error of a failed enqueue, the row it
\* saved is gone or carries an error status: it is not left QUEUED with no
\* job for it in any queue.
C12_NoQueuedRowWithoutJob ==
  [][SubmitEnqueueFails =>
       ~(/\ store'[api.sid].exists
         /\ store'[api.sid].status = "QUEUED"
         /\ ~HasJob(queue', api.sid))]_vars

\* a submit request that must be rejected: wrong role, no published
\* challenge, no test cases, or code that is empty or too long
MustReject(r) ==
  \/ r.user_role # "STUDENT"
  \/ challenge_status # "published"
  \/ challenge = <<>>
  \/ r.length = 0
  \/ r.length > MAX_CODE_LENGTH

\* C13: a submit request that must be rejected writes nothing: no row, no
\* job, no status key, and the handler does not go on to enqueue.
C13_RejectedSubmitWritesNothing ==
  [][(req'.tick # req.tick /\ MustReject(req')) =>
       /\ UNCHANGED <<store, queue, status_key, result_key, clock>>
       /\ api' = ApiIdle]_vars

\* a student's well-formed request to the published challenge was rejected
\* because the challenge has no test cases
C13_Witness ==
  /\ req.tick = 1
  /\ req.user_role = "STUDENT"
  /\ req.length = 1
  /\ challenge_status = "published"
  /\ challenge = <<>>
  /\ RowCount = 0
  /\ api = ApiIdle

\* the jobs waiting in the queues
QueuedJobs == UNION {{queue[l][i] : i \in 1..Len(queue[l])} : l \in Langs}

\* C20: all jobs issued for one submission, by submit and by the manual
\* enqueue, are equal in every field but enqueued_at, also when test cases
\* were added to the challenge in between.
C20_ReenqueuedJobIdentical ==
  \A j1, j2 \in QueuedJobs :
    j1.submission_id = j2.submission_id =>
      [j1 EXCEPT !.enqueued_at = 0] = [j2 EXCEPT !.enqueued_at = 0]

\* the workers that consume the queue of a language
WorkersOn(l) == {w \in Workers : lower(wk[w].language) = l}

\* the jobs of a language that were marked RUNNING, in the order in which
\* they were marked
RunningIds(l) ==
  SelectSeq(running_log,
            LAMBDA id : \E i \in 1..Len(enq_log[l]) : enq_log[l][i] = id)

\* s is t with some of its elements left out
RECURSIVE IsSubSeq(_, _)
IsSubSeq(s, t) ==
  IF s = <<>> THEN TRUE
  ELSE IF t = <<>> THEN FALSE
  ELSE IF Head(s) = Head(t) THEN IsSubSeq(Tail(s), Tail(t))
  ELSE IsSubSeq(s, Tail(t))

\* C16: when exactly one worker consumes a language, the jobs of that
\* language are marked RUNNING in the order in which they were enqueued: if
\* A was enqueued before B and both reach RUNNING, A reaches it first.
C16_SingleWorkerRunsInOrder ==
  \A l \in Langs :
    Cardinality(WorkersOn(l)) = 1 => IsSubSeq(RunningIds(l), enq_log[l])

\* two jobs of a language with a single worker waited in the queue together
\* and both were marked RUNNING
C16_Witness ==
  \E l \in Langs :
    /\ Cardinality(WorkersOn(l)) = 1
    /\ Len(RunningIds(l)) >= 2
    /\ \E i \in 1..Len(deq_log[l]) : deq_log[l][i].left >= 1

\* C17: a failure of a job never ends a worker's loop: after a job that
\* raised, the worker polls again, and a worker leaves its loop only after
\* a shutdown signal has cleared its running flag.
C17_WorkerSurvivesJobFailure ==
  [][\A w \in Workers :
       /\ (wk[w].pc # "stopped" /\ wk'[w].pc = "stopped") => ~wk[w].running
       /\ (JobEnds(w) /\ wk'[w].exc # "none" /\ wk[w].running) =>
            wk'[w].pc = "poll"]_vars

\* a worker whose job raised is polling its queue again
C17_Witness ==
  \E w \in Workers :
    wk[w].pc = "poll" /\ wk[w].exc # "none" /\ wk[w].running

\* a live worker is processing another job of the submission of job j
OtherJobRuns(j) ==
  \E w \in Workers :
    /\ wk[w].pc \notin {"poll", "dead", "stopped"}
    /\ wk[w].job # j
    /\ wk[w].job.submission_id = j.submission_id

\* C18: a job that a worker held when its process was killed after the
\* submission was marked RUNNING is from then on in no queue, was dequeued
\* exactly once and is held by no live worker, also after the manager has
\* started a replacement worker; and no step of a worker or of the manager
\* changes the row of its submission, which so stays RUNNING, unless a
\* worker runs another job that was enqueued for the submission by hand.
C18_CrashedJobNeverRerun ==
  [][\A j \in orphans' :
       /\ TimesQueued(j.enqueued_at)' = 0
       /\ TimesDequeued(j.enqueued_at)' = 1
       /\ \A w \in Workers : wk'[w].pc # "dead" => wk'[w].job # j
       /\ (api' = api /\ ~OtherJobRuns(j)) =>
            store'[j.submission_id] = store[j.submission_id]]_vars

\* a worker was killed while it held a RUNNING job and its replacement is
\* polling the queue of the language
C18_Witness ==
  \E j \in orphans :
    /\ store[j.submission_id].status = "RUNNING"
    /\ \A w \in WorkersOn(_get_queue_name(j.language)) : wk[w].pc = "poll"

\* C19: however the manager was started, a child that has exited is
\* replaced: every language whose worker is dead eventually has a live
\* worker again.
C19_DeadWorkerRestarted ==
  \A language \in SUPPORTED_LANGUAGES :
    (mgr.workers[language] = "dead") ~> (mgr.workers[language] = "alive")

\* the same, for a manager started with --monitor
C19_DeadWorkerRestartedIfMonitoring ==
  \A language \in SUPPORTED_LANGUAGES :
    (mgr.monitor /\ mgr.workers[language] = "dead")
      ~> (mgr.workers[language] = "alive")

\* C21: in every executor, normalizing a normalized text changes nothing:
\* normalize(normalize(x)) = normalize(x) for every text x of spaces, CR,
\* LF and ordinary characters.
C21_NormalizeIdempotent ==
  norm.pc = "twice" => norm.twice = norm.once

\* a text with a carriage return inside and whitespace around it has been
\* normalized twice
C21_Witness ==
  /\ norm.pc = "twice"
  /\ Len(norm.once) < Len(norm.x)
  /\ \E i \in 1..Len(norm.once) : norm.once[i] = "\n"
  /\ \E i \in 1..Len(norm.x) : norm.x[i] = "\r"

\* C22: a call of peek or length leaves every queue, status key and
\* result key as it was: every job a peek returned is still in its queue
\* after the call, and with such calls in between the dequeues still return
\* the jobs of each queue in the order in which they were enqueued.
C22_PeekConsumesNothing ==
  [][/\ peek'.tick # peek.tick =>
          /\ UNCHANGED <<queue, status_key, result_key>>
          /\ \A id \in 1..clock :
               (\E i \in 1..Len(peek'.items) : peek'.items[i] = id) =>
                 TimesQueued(id)' = 1
     /\ \A l \in Langs : IsPrefix(DequeuedIds(l), enq_log[l])']_vars

\* a peek returned a job, and a later dequeue returned that job
C22_Witness ==
  /\ peek.op = "peek"
  /\ peek.items # <<>>
  /\ TimesDequeued(peek.items[1]) = 1

(***************************************************************************)
(* Properties of the routing, checked under SpecRouting.                   *)
(***************************************************************************)
\* the job worker w holds is not of the worker's language
Mismatch(worker) == upper(worker.job.language) # worker.language

\* C23: a worker that dequeued a job of another language than its own (a
\* job of an unknown language arrives on the python queue) leaves the
\* submission RUNTIME_ERROR with score 0 and goes on to poll for the next
\* job; the executor is never invoked for such a job, so no worker ever
\* runs, completes or caches a result for it.
C23_MismatchFailsWithoutExecutor ==
  [][\A w \in Workers :
       /\ (JobEnds(w) /\ Mismatch(wk[w])) =>
            /\ store'[wk[w].job.submission_id].status = "RUNTIME_ERROR"
            /\ store'[wk[w].job.submission_id].score = 0
            /\ wk'[w].pc = "poll"
       /\ wk'[w].pc \in {"run", "complete", "cache_result"} =>
            ~Mismatch(wk'[w])]_vars

\* the python worker dropped a job of an unknown language: the row is
\* RUNTIME_ERROR with no cases, no result was ever cached for it, and
\* every worker polls again
C23_Witness ==
  /\ \A w \in Workers : wk[w].pc = "poll"
  /\ \E s \in SubIds :
       /\ store[s].status = "RUNTIME_ERROR"
       /\ store[s].cases = <<>>
       /\ result_key[s] = NoResult
       /\ \E i \in 1..Len(deq_log["python"]) : deq_log["python"][i].by = 1

(***************************************************************************)
(* Properties of the test-case runs, checked under SpecExec.               *)
(***************************************************************************)
\* the executor finishes a test case in this step
CaseStep == Len(ex'.results) = Len(ex.results) + 1

\* the test case the executor is about to run
NextCase == ex.test_cases[Len(ex.results) + 1]

\* _execute_test_case: the command run_code builds for test case tc; the
\* C++ and Java executors pass compile_first=True, the others False
CaseCmd(lang, tc) == FullCmd(InputData(lang, tc), lang \in CompiledLangs)

\* C24: a test case whose stdin is empty or absent is executed like any
\* other, in every language: its verdict comes from one invocation, and
\* that invocation runs the program (it is not a compile without a run).
C24_EmptyStdinCaseIsRun ==
  [][(CaseStep /\ NextCase.input = None) =>
       /\ ex'.calls = ex.calls + 1
       /\ CaseCmd(ex.lang, NextCase) # "compile_only"]_vars

\* C25: for a compiled language the source is compiled by exactly one
\* invocation before the first test case, and the run of a test case does
\* not compile again.
C25_CompiledOnce ==
  [][(CaseStep /\ ex.lang \in CompiledLangs) =>
       /\ ex.results = <<>> => (ex.calls = 1 /\ ex.last.phase = "compile")
       /\ CaseCmd(ex.lang, NextCase) \notin {"compile_and_run",
                                             "compile_only"}]_vars

(***************************************************************************)
(* Properties of the status cache, checked under SpecCache.                *)
(***************************************************************************)
\* C26: whenever the store holds a terminal status for a submission, the
\* cached status key of the submission eventually holds the same terminal
\* status.
C26_TerminalStatusCached ==
  \A s \in SubIds :
    (store[s].status \in TerminalStatus)
      ~> (/\ store[s].status \in TerminalStatus
          /\ status_key[s] = store[s].status)

(***************************************************************************)
(* Properties of the races between a request handler and a worker,         *)
(* checked under Spec.                                                     *)
(***************************************************************************)
\* a worker has marked the submission RUNNING for job j
WorkerStarted(j) ==
  \E i \in 1..Len(running_log) : running_log[i] = j.enqueued_at

\* the manual enqueue handler writes the row in this step
HandlerWrites == api.pc = "update" /\ api'.pc = "idle"

\* C27: the write of the manual enqueue handler never replaces what a
\* worker wrote for the job the handler pushed: when a worker has already
\* marked the submission RUNNING for that job, the handler's write leaves
\* status, score and case list of the row as they are, so the row is not
\* put back to QUEUED after its job has left the queue.
C27_HandlerKeepsWorkerWrites ==
  [][(HandlerWrites /\ WorkerStarted(api.job)) =>
       /\ store'[api.sid].status = store[api.sid].status
       /\ store'[api.sid].score = store[api.sid].score
       /\ store'[api.sid].cases = store[api.sid].cases]_vars

\* a worker has written the status key for job j: it marked the submission
\* RUNNING for the job and is past its set_submission_status call
KeyWritten(j) ==
  /\ WorkerStarted(j)
  /\ \A w \in Workers :
       ~(wk[w].pc = "cache_running" /\ wk[w].job.enqueued_at = j.enqueued_at)

\* enqueue_submission writes the status key in this step
EnqueueWritesKey == api.pc = "set_status" /\ api'.pc # "set_status"

\* C28: for one enqueue the cached status key only moves forward, QUEUED
\* to RUNNING to a terminal status: enqueue_submission does not set the key
\* to QUEUED once the worker that dequeued the job has written RUNNING or a
\* terminal status for it.
C28_KeyNotSetBackToQueued ==
  [][(EnqueueWritesKey /\ KeyWritten(api.job)) =>
       status_key'[api.sid] # "QUEUED"]_vars

(***************************************************************************)
(* Properties of the result cache, checked under SpecFaults.               *)
(***************************************************************************)
\* worker w writes the result and status keys of its job in this step
CachesVerdict(w) ==
  /\ wk[w].pc = "cache_result"
  /\ wk'[w].pc # "cache_result"
  /\ <<result_key, status_key>>' # <<result_key, status_key>>

\* C29: a worker caches a verdict only after the store has persisted it:
\* when it writes the result and status keys of a submission, the row of
\* the submission holds the same terminal status and score, also when the
\* store update of the complete step failed.
C29_CachedVerdictIsStored ==
  [][\A w \in Workers :
       CachesVerdict(w) =>
         LET s == wk[w].job.submission_id
         IN /\ status_key'[s] \in TerminalStatus
            /\ store'[s].status = status_key'[s]
            /\ store'[s].score = result_key'[s].score]_vars

(***************************************************************************)
(* Properties of the fair pipeline, checked under SpecLive.                *)
(***************************************************************************)
\* C30: with a running worker for every language that receives jobs and
\* no failing operation, every enqueued job is eventually dequeued, and a
\* submission that is QUEUED or RUNNING in the store eventually has a
\* terminal status: none stays QUEUED or RUNNING forever.
C30_NoSubmissionPendingForever ==
  /\ \A j \in 1..MaxJobs : (TimesQueued(j) = 1) ~> (TimesDequeued(j) = 1)
  /\ \A s \in SubIds :
       (store[s].status \in {"QUEUED", "RUNNING"})
         ~> (store[s].status \in TerminalStatus)

====
